---- MODULE Spec2Model ----
(***************************************************************************)
(* Model of the converter application (app.py, gmsh_convert.py).           *)
(*                                                                         *)
(*   SpecText  the token extractor extract_numbers_and_english applied to  *)
(*             bounded texts;                                              *)
(*   SpecMesh  degrade_tetra10_to_tetra and convert_to_msh applied to      *)
(*             bounded meshes;                                             *)
(*   Spec      one Streamlit session running main(), and one run of the    *)
(*             gmsh_convert.py script.                                     *)
(***************************************************************************)
EXTENDS Integers, Sequences, FiniteSets, TLC

VARIABLES
    \* ---- token extractor (SpecText)
    text_content,   \* the argument of extract_numbers_and_english
    tokens,         \* its return value
    tpc,            \* "input" | "done"
    \* ---- mesh degrader / converter (SpecMesh)
    input_mesh,     \* the mesh returned by meshio.read
    degraded_mesh,  \* degrade_tetra10_to_tetra(input_mesh)
    twice_mesh,     \* degrade_tetra10_to_tetra(degraded_mesh)
    msh_file,       \* what meshio.write put in the output file
    mpc,            \* "read" | "degraded" | "twice" | "written"
    \* ---- main() in one Streamlit session (Spec)
    uploaded_file,  \* NoFile, or the file held by st.file_uploader
    pc,             \* where the script run of main() stands; "idle" between runs
    st_button,      \* the value st.button returns in this run
    button_shown,   \* the "Convert to .msh" button is on the page
    shown,          \* the elements this run has put on the page
    extracted,      \* the token list of this run
    temp_file,      \* this request's temporary input file: "absent" | "present"
    out_file,       \* this request's .msh file: "absent" | "partial" | "complete"
    conv,           \* this run's conversion: "none" | "ok" | "failed"
    convert_calls,  \* calls of convert_to_msh in this run
    extract_calls,  \* calls of extract_numbers_and_english in this run
    leaked,         \* temporary files that earlier requests left behind
    \* ---- one run of gmsh_convert.py (Spec)
    g_pc,           \* the number of calls of the script that have returned
    g_exit,         \* "running", or the exit status of the script: "0" | "1"
    g_out           \* the output .msh of the script: "absent" | "complete"

textVars == <<text_content, tokens, tpc>>
meshVars == <<input_mesh, degraded_mesh, twice_mesh, msh_file, mpc>>
mainVars == <<uploaded_file, pc, st_button, button_shown, shown, extracted,
              temp_file, out_file, conv, convert_calls, extract_calls, leaked>>
gmshVars == <<g_pc, g_exit, g_out>>
vars == <<textVars, meshVars, mainVars, gmshVars>>

\* no mesh yet: a variable that the program has not assigned
NoMesh ==
    [points |-> <<>>, cells |-> <<>>, point_data |-> {}, cell_data |-> {},
     field_data |-> {}, point_sets |-> {}, cell_sets |-> {}]

\* no output file yet
NoMshFile ==
    [points |-> <<>>, cells |-> <<>>, point_data |-> {}, cell_data |-> {},
     field_data |-> {}]

\* st.file_uploader returns None
NoFile == [ext |-> "", utf8 |-> FALSE, text |-> <<>>, parses |-> FALSE]

Max(S) == CHOOSE m \in S : \A k \in S : k <= m

(***************************************************************************)
(* Characters.  A text is a sequence of characters; a character is a       *)
(* one-element string, or the code point name of a non-ASCII character.    *)
(***************************************************************************)
AsciiLetters == {"a", "b", "c", "d", "e", "m", "o", "B", "N"}
AsciiDigits == {"0", "1", "2", "3", "4", "5", "6", "7", "8", "9"}
\* U+0663 ARABIC-INDIC DIGIT THREE: category Nd, matched by \d in a str pattern
OtherDecimalDigits == {"U+0663"}
\* U+00E9 (e acute) and the underscore: matched by \w, by neither alternative
OtherWordChars == {"_", "U+00E9"}
NonWordChars == {" ", ","}

\* [A-Za-z]
LetterClass == AsciiLetters
\* \d of a str (Unicode) pattern
DigitClass == AsciiDigits \cup OtherDecimalDigits
\* \w of a str (Unicode) pattern
WordClass == AsciiLetters \cup DigitClass \cup OtherWordChars

\* whether position i of s (1-based) holds a word character; outside s: no
WordAt(s, i) == i >= 1 /\ i <= Len(s) /\ s[i] \in WordClass

\* the pattern without its \b assertions
NoBoundary(s, i) == TRUE

\* \b just before position i of s
WordBoundary(s, i) == WordAt(s, i - 1) # WordAt(s, i)

\* the length of the run of characters of class cls starting at position i
RECURSIVE RunLen(_, _, _)
RunLen(s, i, cls) ==
    IF i <= Len(s) /\ s[i] \in cls THEN 1 + RunLen(s, i + 1, cls) ELSE 0

\* cls+ followed by \b at position i: greedy, backtracking to shorter runs;
\* the length matched, 0 for no match
MatchAlt(s, i, cls) ==
    LET n == RunLen(s, i, cls)
        ks == {k \in 1..n : WordBoundary(s, i + k)}
    IN IF ks = {} THEN 0 ELSE Max(ks)

\* \b([A-Za-z\d]+)\b: the two alternatives merged into one class
MatchAt_MergedClass(s, i) ==
    IF ~WordBoundary(s, i) THEN 0
    ELSE MatchAlt(s, i, LetterClass \cup DigitClass)

\* \b([A-Za-z]+|\d+)\b at position i: the first alternative that matches
MatchAt(s, i) ==
    IF ~WordBoundary(s, i) THEN 0
    ELSE LET a == MatchAlt(s, i, LetterClass)
         IN IF a > 0 THEN a ELSE MatchAlt(s, i, DigitClass)

\* re.findall: scan left to right, non-overlapping, group 1 of each match
RECURSIVE FindAll(_, _)
FindAll(s, i) ==
    IF i > Len(s) THEN <<>>
    ELSE LET k == MatchAt(s, i)
         IN IF k > 0 THEN <<SubSeq(s, i, i + k - 1)>> \o FindAll(s, i + k)
            ELSE FindAll(s, i + 1)

extract_numbers_and_english(s) == FindAll(s, 1)

(***************************************************************************)
(* Inputs of the token extractor.                                          *)
(***************************************************************************)
MaxTextLen == 4

Alphabet == {"a", "b", "1", "2", " ", "_", "U+0663"}

NodeBeamText == <<"N", "o", "d", "e", "1", "2", " ", "B", "e", "a", "m", "7">>
NodeBeamSpaced ==
    <<"N", "o", "d", "e", " ", "1", "2", " ", "B", "e", "a", "m", " ", "7">>
Abc123Text == <<"a", "b", "c", "1", "2", "3">>
CafeText == <<"c", "a", "U+00E9", ",", "a", "b", ",", "a", "b">>

SampleTexts == {NodeBeamText, NodeBeamSpaced, Abc123Text, CafeText}

\* the extractor is given a text; the rest of the program is not running
TextInit ==
    /\ \/ \E n \in 0..MaxTextLen : text_content \in [1..n -> Alphabet]
       \/ text_content \in SampleTexts
    /\ tokens = <<>>
    /\ tpc = "input"
    /\ input_mesh = NoMesh
    /\ degraded_mesh = NoMesh
    /\ twice_mesh = NoMesh
    /\ msh_file = NoMshFile
    /\ mpc = "off"
    /\ uploaded_file = NoFile
    /\ pc = "off"
    /\ st_button = FALSE
    /\ button_shown = FALSE
    /\ shown = {}
    /\ extracted = <<>>
    /\ temp_file = "absent"
    /\ out_file = "absent"
    /\ conv = "none"
    /\ convert_calls = 0
    /\ extract_calls = 0
    /\ leaked = 0
    /\ g_pc = "off"
    /\ g_exit = "running"
    /\ g_out = "absent"

Extract ==
    /\ tpc = "input"
    /\ tokens' = extract_numbers_and_english(text_content)
    /\ tpc' = "done"
    /\ UNCHANGED <<text_content, meshVars, mainVars, gmshVars>>

TextNext == Extract

SpecText == TextInit /\ [][TextNext]_vars

(***************************************************************************)
(* Meshes.  A meshio.Mesh: points, cell blocks (a type and a table of      *)
(* vertex-index rows) and the auxiliary dictionaries.  A dictionary is a   *)
(* set of <<key, value>> pairs.                                            *)
(***************************************************************************)
CellTypes == {"triangle", "tetra", "triangle6", "tetra10"}

\* the second-order (quadratic) cell types among CellTypes
SecondOrderTypes == {"triangle6", "tetra10"}

\* meshio's number of nodes per cell of each type
NumNodes(cell_type) ==
    CASE cell_type = "triangle" -> 3
      [] cell_type = "tetra" -> 4
      [] cell_type = "triangle6" -> 6
      [] cell_type = "tetra10" -> 10

\* the 4 of data[:, :4]
CornerNodes == 4

Min2(a, b) == IF a <= b THEN a ELSE b

\* row[:n] of a numpy row
Take(row, n) == SubSeq(row, 1, Min2(n, Len(row)))

\* data[:, :3]: one corner node too few
DegradeBlock_ThreeColumns(cell_block) ==
    IF cell_block.type = "tetra10"
    THEN [type |-> "tetra",
          data |-> [r \in 1..Len(cell_block.data) |->
                        Take(cell_block.data[r], CornerNodes - 1)]]
    ELSE cell_block

\* the slice without the relabelling cell_type = "tetra"
DegradeBlock_NoRelabel(cell_block) ==
    IF cell_block.type = "tetra10"
    THEN [type |-> "tetra10",
          data |-> [r \in 1..Len(cell_block.data) |->
                        Take(cell_block.data[r], CornerNodes)]]
    ELSE cell_block

\* every block sliced to 4 columns, whatever its type
DegradeBlock_EveryBlock(cell_block) ==
    [type |-> IF cell_block.type = "tetra10" THEN "tetra" ELSE cell_block.type,
     data |-> [r \in 1..Len(cell_block.data) |->
                   Take(cell_block.data[r], CornerNodes)]]

\* one pass of the loop body: the (cell_type, data) appended to new_cells
DegradeBlock(cell_block) ==
    IF cell_block.type = "tetra10"
    THEN [type |-> "tetra",
          data |-> [r \in 1..Len(cell_block.data) |->
                        Take(cell_block.data[r], CornerNodes)]]
    ELSE cell_block

Reverse(q) == [i \in 1..Len(q) |-> q[Len(q) + 1 - i]]

\* new_cells.insert(0, ...) in place of new_cells.append(...)
degrade_Prepend(m) ==
    [points |-> m.points,
     cells |-> Reverse([i \in 1..Len(m.cells) |-> DegradeBlock(m.cells[i])]),
     point_data |-> m.point_data,
     cell_data |-> m.cell_data,
     field_data |-> m.field_data,
     point_sets |-> {},
     cell_sets |-> {}]

\* meshio.Mesh(points, cells, point_data, cell_data, field_data): the sets
\* are not passed, and default to empty dictionaries
degrade_tetra10_to_tetra(m) ==
    [points |-> m.points,
     cells |-> [i \in 1..Len(m.cells) |-> DegradeBlock(m.cells[i])],
     point_data |-> m.point_data,
     cell_data |-> m.cell_data,
     field_data |-> m.field_data,
     point_sets |-> {},
     cell_sets |-> {}]

\* meshio.write(output_path, mesh): the file holds the points, the cell
\* blocks and the data dictionaries of the mesh
meshio_write(m) ==
    [points |-> m.points,
     cells |-> m.cells,
     point_data |-> m.point_data,
     cell_data |-> m.cell_data,
     field_data |-> m.field_data]

(***************************************************************************)
(* Inputs of the degrader: the meshes meshio.read can return, bounded.     *)
(***************************************************************************)
MaxBlocks == 2
MaxRows == 2
MaxStart == 1
NumPoints == 11

\* a row of vertex indices (0-based, as meshio keeps them)
Row(cell_type, start) ==
    [i \in 1..NumNodes(cell_type) |-> (start + i - 1) % NumPoints]

Block(cell_type, nrows, start) ==
    [type |-> cell_type,
     data |-> [r \in 1..nrows |-> Row(cell_type, start + r - 1)]]

Blocks ==
    {Block(t, n, s) : t \in CellTypes, n \in 1..MaxRows, s \in 0..MaxStart}

PointsOf(scale) == [i \in 1..NumPoints |-> <<scale * (i - 1), 0, 0>>]

\* a mesh without auxiliary data
PlainMesh(cells) ==
    [points |-> PointsOf(1),
     cells |-> cells,
     point_data |-> {},
     cell_data |-> {},
     field_data |-> {},
     point_sets |-> {},
     cell_sets |-> {}]

\* a mesh with every auxiliary dictionary filled, consistently with cells
TaggedMesh(cells) ==
    [points |-> PointsOf(2),
     cells |-> cells,
     point_data |-> {<<"T", [i \in 1..NumPoints |-> i]>>},
     cell_data |-> {<<"gmsh:physical",
                      [b \in 1..Len(cells) |->
                          [r \in 1..Len(cells[b].data) |-> b]]>>},
     field_data |-> {<<"steel", <<1, 3>>>>},
     point_sets |-> {<<"fixed", {0, 1}>>},
     cell_sets |-> {<<"all", [b \in 1..Len(cells) |-> {0}]>>}]

\* meshio.read has returned a mesh; the rest of the program is not running
MeshInit ==
    /\ \E n \in 0..MaxBlocks : \E cells \in [1..n -> Blocks] :
           input_mesh \in {PlainMesh(cells), TaggedMesh(cells)}
    /\ degraded_mesh = NoMesh
    /\ twice_mesh = NoMesh
    /\ msh_file = NoMshFile
    /\ mpc = "read"
    /\ text_content = <<>>
    /\ tokens = <<>>
    /\ tpc = "off"
    /\ uploaded_file = NoFile
    /\ pc = "off"
    /\ st_button = FALSE
    /\ button_shown = FALSE
    /\ shown = {}
    /\ extracted = <<>>
    /\ temp_file = "absent"
    /\ out_file = "absent"
    /\ conv = "none"
    /\ convert_calls = 0
    /\ extract_calls = 0
    /\ leaked = 0
    /\ g_pc = "off"
    /\ g_exit = "running"
    /\ g_out = "absent"

\* mesh = degrade_tetra10_to_tetra(mesh)
Degrade ==
    /\ mpc = "read"
    /\ degraded_mesh' = degrade_tetra10_to_tetra(input_mesh)
    /\ mpc' = "degraded"
    /\ UNCHANGED <<input_mesh, twice_mesh, msh_file, textVars, mainVars, gmshVars>>

\* the degrader applied to its own result
DegradeAgain ==
    /\ mpc = "degraded"
    /\ twice_mesh' = degrade_tetra10_to_tetra(degraded_mesh)
    /\ mpc' = "twice"
    /\ UNCHANGED <<input_mesh, degraded_mesh, msh_file, textVars, mainVars, gmshVars>>

\* meshio.write(output_path, mesh)
Write ==
    /\ mpc = "degraded"
    /\ msh_file' = meshio_write(degraded_mesh)
    /\ mpc' = "written"
    /\ UNCHANGED <<input_mesh, degraded_mesh, twice_mesh, textVars, mainVars, gmshVars>>

MeshNext == Degrade \/ DegradeAgain \/ Write

SpecMesh == MeshInit /\ [][MeshNext]_vars

(***************************************************************************)
(* main(): one Streamlit session.  Every widget interaction (a file put    *)
(* into or taken out of the uploader, a click on the button) runs the      *)
(* script from the top; pc = "idle" between two runs.  temp_file and       *)
(* out_file are the two files of the current request: each request gets    *)
(* fresh names from tempfile.NamedTemporaryFile.                           *)
(***************************************************************************)
Extensions == {"txt", "asc", "stl", "nas", "msh"}

\* the runs of a session are followed until this many files are left behind
MaxLeaked == 2

\* the texts of the uploads that decode: one without tokens, one with
UploadTexts == {<<",">>, NodeBeamSpaced}

\* an upload: its extension, whether its bytes are valid UTF-8, the decoded
\* text if they are, and whether meshio.read can parse the file
Uploads ==
    {[ext |-> e, utf8 |-> u, text |-> t, parses |-> p] :
        e \in Extensions, u \in BOOLEAN, t \in UploadTexts \cup {<<>>},
        p \in BOOLEAN}

UploadedFiles ==
    {f \in Uploads : (f.utf8 /\ f.text \in UploadTexts) \/ (~f.utf8 /\ f.text = <<>>)}

\* the script of gmsh_convert.py, call by call
angle == 40
curve_angle == 180
force_parametrizable_patches == TRUE
include_boundary == TRUE

GmshScript ==
    << [call |-> "gmsh.initialize", args |-> <<>>],
       [call |-> "gmsh.option.setNumber", args |-> <<"General.Terminal", "1">>],
       [call |-> "gmsh.option.setNumber", args |-> <<"Mesh.MshFileVersion", "2.2">>],
       [call |-> "gmsh.model.add", args |-> <<"TetraMesh">>],
       [call |-> "gmsh.merge", args |-> <<"input_stl_path">>],
       [call |-> "gmsh.model.mesh.classifySurfaces",
        args |-> <<angle, include_boundary, force_parametrizable_patches,
                   curve_angle>>],
       [call |-> "gmsh.model.mesh.createGeometry", args |-> <<>>],
       [call |-> "gmsh.model.mesh.generate", args |-> <<"3">>],
       [call |-> "gmsh.write", args |-> <<"output_msh_path">>],
       [call |-> "gmsh.finalize", args |-> <<>>] >>

Init ==
    /\ uploaded_file = NoFile
    /\ pc = "idle"
    /\ st_button = FALSE
    /\ button_shown = FALSE
    /\ shown = {}
    /\ extracted = <<>>
    /\ temp_file = "absent"
    /\ out_file = "absent"
    /\ conv = "none"
    /\ convert_calls = 0
    /\ extract_calls = 0
    /\ leaked = 0
    /\ g_pc = 0
    /\ g_exit = "running"
    /\ g_out = "absent"
    /\ text_content = <<>>
    /\ tokens = <<>>
    /\ tpc = "off"
    /\ input_mesh = NoMesh
    /\ degraded_mesh = NoMesh
    /\ twice_mesh = NoMesh
    /\ msh_file = NoMshFile
    /\ mpc = "off"

others == <<textVars, meshVars, gmshVars>>

\* the temporary files of the current request that are on the disk
LeftBehind ==
    (IF temp_file = "absent" THEN 0 ELSE 1) + (IF out_file = "absent" THEN 0 ELSE 1)

\* a script run starts on an empty page, with the files of a new request;
\* what the last request left on the disk stays there
NewRun ==
    /\ leaked + LeftBehind <= MaxLeaked
    /\ leaked' = leaked + LeftBehind
    /\ button_shown' = FALSE
    /\ shown' = {}
    /\ extracted' = <<>>
    /\ temp_file' = "absent"
    /\ out_file' = "absent"
    /\ conv' = "none"
    /\ convert_calls' = 0
    /\ extract_calls' = 0

\* the user puts a file into the uploader
Upload ==
    /\ pc = "idle"
    /\ \E f \in UploadedFiles : uploaded_file' = f
    /\ st_button' = FALSE
    /\ pc' = "branch"
    /\ NewRun
    /\ UNCHANGED others

\* the user clicks "Convert to .msh": st.button returns True in the rerun
Click ==
    /\ pc = "idle"
    /\ button_shown
    /\ st_button' = TRUE
    /\ pc' = "branch"
    /\ NewRun
    /\ UNCHANGED <<uploaded_file, others>>

\* the user takes the file out: uploaded_file is None, the run does nothing
RemoveFile ==
    /\ pc = "idle"
    /\ uploaded_file # NoFile
    /\ uploaded_file' = NoFile
    /\ st_button' = FALSE
    /\ pc' = "idle"
    /\ NewRun
    /\ UNCHANGED others

\* lines 66-70 and 124-125: the branch on the extension
Branch ==
    /\ pc = "branch"
    /\ IF uploaded_file.ext \in {"txt", "asc", "stl", "nas"}
       THEN pc' = "decode" /\ shown' = shown
       ELSE IF uploaded_file.ext = "msh"
            THEN pc' = "idle" /\ shown' = shown \cup {"info_msh"}
            ELSE pc' = "idle" /\ shown' = shown
    /\ UNCHANGED <<uploaded_file, st_button, button_shown, extracted, temp_file,
                   out_file, conv, convert_calls, extract_calls, leaked, others>>

\* decode("utf-8", errors="ignore"): undecodable bytes are dropped
Decode_Lenient ==
    /\ pc = "decode"
    /\ pc' = "extract"
    /\ UNCHANGED <<uploaded_file, st_button, button_shown, shown, extracted,
                   temp_file, out_file, conv, convert_calls, extract_calls,
                   leaked, others>>

\* line 72, and lines 118-119 when the bytes are not UTF-8
Decode ==
    /\ pc = "decode"
    /\ IF uploaded_file.utf8
       THEN pc' = "extract" /\ shown' = shown
       ELSE pc' = "idle" /\ shown' = shown \cup {"error_decode"}
    /\ UNCHANGED <<uploaded_file, st_button, button_shown, extracted, temp_file,
                   out_file, conv, convert_calls, extract_calls, leaked, others>>

\* lines 75-83: extraction and its display
ExtractTokens ==
    /\ pc = "extract"
    /\ extracted' = extract_numbers_and_english(uploaded_file.text)
    /\ extract_calls' = extract_calls + 1
    /\ shown' = shown \cup (IF extracted' # <<>> THEN {"dataframe"} ELSE {"info_none"})
    /\ pc' = "button"
    /\ UNCHANGED <<uploaded_file, st_button, button_shown, temp_file, out_file,
                   conv, convert_calls, leaked, others>>

\* the button offered whatever the extension
ConvertButton_AnyExtension ==
    /\ pc = "button"
    /\ button_shown' = TRUE
    /\ pc' = IF st_button THEN "tempfile" ELSE "idle"
    /\ UNCHANGED <<uploaded_file, st_button, shown, extracted, temp_file,
                   out_file, conv, convert_calls, extract_calls, leaked, others>>

\* lines 86-87: the button, for stl and nas only
ConvertButton ==
    /\ pc = "button"
    /\ IF uploaded_file.ext \in {"stl", "nas"}
       THEN /\ button_shown' = TRUE
            /\ pc' = IF st_button THEN "tempfile" ELSE "idle"
       ELSE /\ button_shown' = button_shown
            /\ pc' = "idle"
    /\ UNCHANGED <<uploaded_file, st_button, shown, extracted, temp_file,
                   out_file, conv, convert_calls, extract_calls, leaked, others>>

\* lines 88-95: the temporary input file.  Creating it may fail (no file),
\* and writing it may fail (the file stays: delete=False); both leave the
\* inner try unentered and end in the handler of lines 120-121
CreateTemp ==
    /\ pc = "tempfile"
    /\ \E outcome \in {"ok", "create_fails", "write_fails"} :
          /\ temp_file' = IF outcome = "create_fails" THEN "absent" ELSE "present"
          /\ pc' = IF outcome = "ok" THEN "convert" ELSE "idle"
          /\ shown' = IF outcome = "ok" THEN shown
                      ELSE shown \cup {"error_unexpected"}
    /\ UNCHANGED <<uploaded_file, st_button, button_shown, extracted, out_file,
                   conv, convert_calls, extract_calls, leaked, others>>

\* lines 97-98 and 50-52: convert_to_msh.  meshio.read raises on a file it
\* cannot parse; meshio.write may raise, with nothing or a part written
Convert ==
    /\ pc = "convert"
    /\ convert_calls' = convert_calls + 1
    /\ \E written \in {"complete", "partial", "absent"} :
          /\ out_file' = IF uploaded_file.parses THEN written ELSE "absent"
          /\ conv' = IF out_file' = "complete" THEN "ok" ELSE "failed"
          /\ pc' = IF out_file' = "complete" THEN "download" ELSE "except"
    /\ UNCHANGED <<uploaded_file, st_button, button_shown, shown, extracted,
                   temp_file, extract_calls, leaked, others>>

\* lines 100-107: the download button
Download ==
    /\ pc = "download"
    /\ shown' = shown \cup {"download"}
    /\ pc' = "finally"
    /\ UNCHANGED <<uploaded_file, st_button, button_shown, extracted, temp_file,
                   out_file, conv, convert_calls, extract_calls, leaked, others>>

\* the handler calling convert_to_msh once more
ExceptConversion_Retry ==
    /\ pc = "except"
    /\ pc' = "convert"
    /\ UNCHANGED <<uploaded_file, st_button, button_shown, shown, extracted,
                   temp_file, out_file, conv, convert_calls, extract_calls,
                   leaked, others>>

\* lines 108-109: the conversion error is reported
ExceptConversion ==
    /\ pc = "except"
    /\ shown' = shown \cup {"error_conversion"}
    /\ pc' = "finally"
    /\ UNCHANGED <<uploaded_file, st_button, button_shown, extracted, temp_file,
                   out_file, conv, convert_calls, extract_calls, leaked, others>>

\* lines 110-116: os.remove(temp_path), then os.remove(output_msh), in one
\* try whose handler passes: the second is not reached when the first raises
Finally ==
    /\ pc = "finally"
    /\ \E first_ok \in BOOLEAN, second_ok \in BOOLEAN :
          /\ temp_file' = IF first_ok THEN "absent" ELSE temp_file
          /\ out_file' = IF first_ok /\ second_ok THEN "absent" ELSE out_file
    /\ pc' = "idle"
    /\ UNCHANGED <<uploaded_file, st_button, button_shown, shown, extracted,
                   conv, convert_calls, extract_calls, leaked, others>>

\* gmsh_convert.py: the next call of the script returns
GmshCall ==
    /\ g_pc \in 0..(Len(GmshScript) - 1)
    /\ g_exit = "running"
    /\ g_pc' = g_pc + 1
    /\ g_out' = IF GmshScript[g_pc'].call = "gmsh.write" THEN "complete" ELSE g_out
    /\ g_exit' = IF g_pc' = Len(GmshScript) THEN "0" ELSE "running"
    /\ UNCHANGED <<mainVars, textVars, meshVars>>

\* gmsh_convert.py: the next call raises; the script ends with a traceback
\* and exit status 1
GmshRaise ==
    /\ g_pc \in 0..(Len(GmshScript) - 1)
    /\ g_exit = "running"
    /\ g_pc' = g_pc
    /\ g_exit' = "1"
    /\ \E left \in {"absent", "partial"} :
          g_out' = IF GmshScript[g_pc + 1].call = "gmsh.write" THEN left ELSE g_out
    /\ UNCHANGED <<mainVars, textVars, meshVars>>

Next ==
    \/ Upload
    \/ Click
    \/ RemoveFile
    \/ Branch
    \/ Decode
    \/ ExtractTokens
    \/ ConvertButton
    \/ CreateTemp
    \/ Convert
    \/ Download
    \/ ExceptConversion
    \/ Finally
    \/ GmshCall
    \/ GmshRaise

Spec == Init /\ [][Next]_vars

(***************************************************************************)
(* The token extractor (SpecText).                                         *)
(***************************************************************************)
Chars(s) == {s[i] : i \in 1..Len(s)}

\* s is a run of ASCII letters directly followed by a run of digits
LettersThenDigits(s) ==
    \E k \in 1..(Len(s) - 1) :
        /\ \A i \in 1..k : s[i] \in LetterClass
        /\ \A i \in (k + 1)..Len(s) : s[i] \in DigitClass

\* the elements of toks occur in s from position from on, in this order and
\* without overlap
RECURSIVE OccurInOrder(_, _, _)
OccurInOrder(toks, s, from) ==
    IF toks = <<>> THEN TRUE
    ELSE LET h == Head(toks)
         IN \E p \in from..(Len(s) - Len(h) + 1) :
                /\ SubSeq(s, p, p + Len(h) - 1) = h
                /\ OccurInOrder(Tail(toks), s, p + Len(h))

FourTokens == << <<"N", "o", "d", "e">>, <<"1", "2">>,
                 <<"B", "e", "a", "m">>, <<"7">> >>

\* C5, as the specification states it: "Node12 Beam7" yields
\* ["Node", "12", "Beam", "7"], and "abc123" yields "abc" and "123".
C5_SplitsLettersFromDigits ==
    tpc = "done" =>
        /\ text_content = NodeBeamText => tokens = FourTokens
        /\ text_content = Abc123Text =>
               tokens = << <<"a", "b", "c">>, <<"1", "2", "3">> >>

\* C5, amended: a run of letters directly followed by a run of digits is one
\* word, which matches neither alternative between two \b: nothing is
\* extracted from it.  "Node12 Beam7" and "abc123" yield the empty list, and
\* the four tokens come out of "Node 12 Beam 7", where non-word characters
\* separate the runs.
C5_NoSplitInsideAWord ==
    tpc = "done" =>
        /\ text_content = NodeBeamText => tokens = <<>>
        /\ text_content = Abc123Text => tokens = <<>>
        /\ LettersThenDigits(text_content) => tokens = <<>>
        /\ text_content = NodeBeamSpaced => tokens = FourTokens

C5_Witness ==
    /\ tpc = "done"
    /\ text_content = NodeBeamText
    /\ tokens = <<>>

Degraded == mpc \in {"degraded", "twice", "written"}

BlockIndexes(m) == 1..Len(m.cells)

\* C3: the degraded mesh has no tetra10 block, and each tetra10 block of the
\* input is, at the same position, a tetra block with as many rows, each the
\* first 4 columns of the original row.
C3_Tetra10BecomesTetra ==
    Degraded =>
        /\ Len(degraded_mesh.cells) = Len(input_mesh.cells)
        /\ \A i \in BlockIndexes(degraded_mesh) :
               degraded_mesh.cells[i].type # "tetra10"
        /\ \A i \in BlockIndexes(input_mesh) :
               input_mesh.cells[i].type = "tetra10" =>
                   LET old == input_mesh.cells[i].data
                       new == degraded_mesh.cells[i].data
                   IN /\ degraded_mesh.cells[i].type = "tetra"
                      /\ Len(new) = Len(old)
                      /\ \A r \in 1..Len(old) :
                             /\ Len(new[r]) = 4
                             /\ new[r] = SubSeq(old[r], 1, 4)

C3_Witness ==
    /\ mpc = "degraded"
    /\ \E i \in BlockIndexes(input_mesh) :
           /\ input_mesh.cells[i].type = "tetra10"
           /\ input_mesh.cells[i].data[1] = <<1, 2, 3, 4, 5, 6, 7, 8, 9, 10>>
           /\ degraded_mesh.cells[i].type = "tetra"
           /\ degraded_mesh.cells[i].data[1] = <<1, 2, 3, 4>>

\* C4, as the specification states it: the mesh convert_to_msh writes holds
\* only linear cell types, whatever second-order types the input held.
C4_OnlyLinearWritten ==
    mpc = "written" =>
        \A i \in BlockIndexes(msh_file) :
            msh_file.cells[i].type \notin SecondOrderTypes

\* C4, amended: the mesh convert_to_msh writes holds no tetra10 block; every
\* other second-order block of the input (triangle6, ...) is written as it
\* was read, so the output is all linear exactly when the input holds no
\* second-order type other than tetra10.
C4_NoTetra10Written ==
    mpc = "written" =>
        /\ Len(msh_file.cells) = Len(input_mesh.cells)
        /\ \A i \in BlockIndexes(msh_file) :
               /\ msh_file.cells[i].type # "tetra10"
               /\ input_mesh.cells[i].type \in SecondOrderTypes \ {"tetra10"} =>
                      msh_file.cells[i] = input_mesh.cells[i]
        /\ (\A i \in BlockIndexes(msh_file) :
                msh_file.cells[i].type \notin SecondOrderTypes)
           <=> (\A i \in BlockIndexes(input_mesh) :
                    input_mesh.cells[i].type \notin SecondOrderTypes \ {"tetra10"})

C4_Witness ==
    /\ mpc = "written"
    /\ \E i, j \in BlockIndexes(input_mesh) :
           /\ input_mesh.cells[i].type = "tetra10"
           /\ msh_file.cells[i].type = "tetra"
           /\ input_mesh.cells[j].type = "triangle6"
           /\ msh_file.cells[j].type = "triangle6"

\* C7: the degrader is idempotent: applied to its own result it returns a
\* mesh equal to that result (points, cell blocks, auxiliary data).
C7_Idempotent ==
    mpc = "twice" => twice_mesh = degraded_mesh

C7_Witness ==
    /\ mpc = "twice"
    /\ Len(input_mesh.cells) = 2
    /\ input_mesh.cells[1].type = "tetra10"
    /\ input_mesh.cells[2].type = "triangle6"
    /\ degraded_mesh # input_mesh
    /\ twice_mesh.cells[1].type = "tetra"

\* C9: the degrader changes nothing but tetra10 blocks: as many blocks, in
\* the same order, every other block with its type and rows, and the points,
\* point_data, cell_data and field_data of the input; the input mesh itself
\* is as it was before the call.
C9_OnlyTetra10Changes ==
    [][(mpc = "read" /\ mpc' = "degraded") =>
          /\ input_mesh' = input_mesh
          /\ Len(degraded_mesh'.cells) = Len(input_mesh.cells)
          /\ \A i \in BlockIndexes(input_mesh) :
                 input_mesh.cells[i].type # "tetra10" =>
                     /\ degraded_mesh'.cells[i].type = input_mesh.cells[i].type
                     /\ degraded_mesh'.cells[i].data = input_mesh.cells[i].data
          /\ degraded_mesh'.points = input_mesh.points
          /\ degraded_mesh'.point_data = input_mesh.point_data
          /\ degraded_mesh'.cell_data = input_mesh.cell_data
          /\ degraded_mesh'.field_data = input_mesh.field_data]_vars

C9_Witness ==
    /\ mpc = "degraded"
    /\ Len(input_mesh.cells) = 2
    /\ input_mesh.cells[1].type = "triangle6"
    /\ input_mesh.cells[2].type = "tetra10"
    /\ input_mesh.cell_data # {}
    /\ degraded_mesh.cells[1] = input_mesh.cells[1]
    /\ degraded_mesh.cell_data = input_mesh.cell_data

(***************************************************************************)
(* main() and gmsh_convert.py (Spec).                                      *)
(***************************************************************************)
\* the state of the upload state machine that a position of main() is in
State ==
    CASE pc = "idle" -> "Idle"
      [] pc \in {"branch", "decode", "extract"} -> "FileReceived"
      [] pc = "button" -> "TextExtracted"
      [] pc = "tempfile" -> "ConversionRequested"
      [] pc = "convert" -> "Converting"
      [] pc = "download" -> "ConversionSucceeded"
      [] pc = "except" -> "ConversionFailed"
      [] pc = "finally" ->
            IF conv = "failed" THEN "ConversionFailed" ELSE "ConversionSucceeded"
      [] OTHER -> "Off"

InConversion == pc \in {"tempfile", "convert", "download", "except", "finally"}

\* C1: once a conversion request has finished, neither its temporary input
\* file nor its temporary .msh file exists, on every exit path.
C1_TempFilesRemoved ==
    pc = "idle" => temp_file = "absent" /\ out_file = "absent" /\ leaked = 0

\* C2: a failed conversion is terminal for its request: the failure is
\* reported, no download is offered, convert_to_msh is not called again, and
\* ConversionFailed is left for Idle only; a gmsh_convert.py run whose call
\* raised has exit status 1 and makes no further call.
C2_FailureIsTerminal ==
    [][/\ convert_calls' <= 1
       /\ conv' = "failed" => "download" \notin shown' /\ convert_calls' = 1
       /\ (conv' = "failed" /\ pc' \in {"finally", "idle"}) =>
              "error_conversion" \in shown'
       /\ State = "ConversionFailed" => State' \in {"ConversionFailed", "Idle"}
       /\ (State # "ConversionFailed" /\ State' = "ConversionFailed") =>
              State = "Converting"
       /\ g_exit = "1" => g_pc' = g_pc /\ g_exit' = "1"
       /\ g_exit' = "0" => g_pc' = Len(GmshScript)]_vars

C2_Witness ==
    /\ pc = "idle"
    /\ conv = "failed"
    /\ convert_calls = 1
    /\ shown = {"dataframe", "error_conversion"}

\* C8: only an stl or nas upload reaches Converting: a txt or asc upload ends
\* with its extraction result on the page (a decode error if its bytes are
\* not UTF-8), with no conversion attempt and no temporary file; an msh
\* upload ends at the "already .msh" message with neither extraction nor
\* conversion.
C8_ConversionOnlyForMeshInputs ==
    /\ InConversion => uploaded_file.ext \in {"stl", "nas"}
    /\ uploaded_file.ext \in {"txt", "asc"} =>
           /\ convert_calls = 0
           /\ conv = "none"
           /\ temp_file = "absent"
           /\ out_file = "absent"
           /\ ~button_shown
           /\ pc = "idle" =>
                  IF uploaded_file.utf8
                  THEN extract_calls = 1 /\ shown \in {{"dataframe"}, {"info_none"}}
                  ELSE extract_calls = 0 /\ shown = {"error_decode"}
    /\ uploaded_file.ext = "msh" =>
           /\ extract_calls = 0
           /\ convert_calls = 0
           /\ conv = "none"
           /\ temp_file = "absent"
           /\ out_file = "absent"
           /\ ~button_shown
           /\ pc \in {"branch", "idle"}
           /\ pc = "idle" => shown = {"info_msh"}

C8_Witness ==
    /\ pc = "idle"
    /\ uploaded_file.ext = "txt"
    /\ extract_calls = 1
    /\ shown = {"dataframe"}

\* C10: conversion is gated on the UTF-8 decode: an stl or nas upload whose
\* bytes do not decode ends with the decode error, without extraction, button,
\* convert_to_msh call or temporary file; and a run is in its conversion only
\* after its decode and its extraction.
C10_ConversionGatedOnDecode ==
    /\ (uploaded_file.ext \in {"stl", "nas"} /\ ~uploaded_file.utf8) =>
           /\ extract_calls = 0
           /\ ~button_shown
           /\ ~st_button
           /\ ~InConversion
           /\ convert_calls = 0
           /\ temp_file = "absent"
           /\ out_file = "absent"
           /\ pc = "idle" => shown = {"error_decode"}
    /\ InConversion =>
           /\ uploaded_file.utf8
           /\ extract_calls = 1
           /\ shown \cap {"dataframe", "info_none"} # {}

C10_Witness ==
    /\ pc = "idle"
    /\ uploaded_file.ext = "stl"
    /\ ~uploaded_file.utf8
    /\ uploaded_file.parses
    /\ shown = {"error_decode"}

====
